---- MODULE Spec2Model ----
(***************************************************************************)
(* Model of AcademicPaperDatabase (specifications/jsons/generate_json.py): *)
(* the record store (papers, authors, venues), the normalizer functions,   *)
(* the author similarity scorer, the author and venue resolvers, and the   *)
(* add_paper / add_author entry points.                                    *)
(*                                                                         *)
(* Strings are sequences of one-character strings, so that strip, split,   *)
(* lower-casing, substring tests and the regular expressions of the code   *)
(* are computed character by character.  Python's None is the value None.  *)
(* Identifiers (uuid4 in the code) are the position of the record in its   *)
(* insertion-ordered mapping, which is a sequence here.                    *)
(***************************************************************************)
EXTENDS Integers, Sequences, FiniteSets, TLC

VARIABLES papers, authors, venues, log

vars == <<papers, authors, venues, log>>

store == <<papers, authors, venues>>

----------------------------------------------------------------------------
(* Characters and Python string primitives.                                *)

None == <<"<None>">>

NA == <<"n", "/", "a">>

Truthy(s) == s # None /\ s # <<>>

\* None where the code expects a list of strings
NoList == << <<"<None>", "<list>">> >>

\* the truth value of a list argument
TruthyList(l) == l # NoList /\ l # <<>>

Uppers == <<"A","B","C","D","E","F","G","H","I","J","K","L","M",
            "N","O","P","Q","R","S","T","U","V","W","X","Y","Z">>

Lowers == <<"a","b","c","d","e","f","g","h","i","j","k","l","m",
            "n","o","p","q","r","s","t","u","v","w","x","y","z">>

DigitChars == <<"0","1","2","3","4","5","6","7","8","9">>

IsUpper(c) == \E i \in DOMAIN Uppers : Uppers[i] = c

IsLower(c) == \E i \in DOMAIN Lowers : Lowers[i] = c

IsAlpha(c) == IsUpper(c) \/ IsLower(c)

IsDigit(c) == \E i \in DOMAIN DigitChars : DigitChars[i] = c

IsWord(c) == IsAlpha(c) \/ IsDigit(c) \/ c = "_"

IsSpace(c) == c \in {" ", "\t", "\n", "\r", "\f"}

DigitValue(c) == (CHOOSE i \in DOMAIN DigitChars : DigitChars[i] = c) - 1

LowerChar(c) == IF IsUpper(c) THEN Lowers[CHOOSE i \in DOMAIN Uppers : Uppers[i] = c] ELSE c

Lower(s) == [i \in DOMAIN s |-> LowerChar(s[i])]

\* s[a..b] as a sequence, empty when a > b
Slice(s, a, b) == IF a > b THEN <<>> ELSE SubSeq(s, a, b)

\* the characters of s at the positions where Keep holds, in order
RECURSIVE KeepFrom(_, _, _)
KeepFrom(s, keep, k) ==
    IF k > Len(s) THEN <<>>
    ELSE (IF keep[k] THEN <<s[k]>> ELSE <<>>) \o KeepFrom(s, keep, k + 1)

LStrip(s) ==
    IF \A i \in DOMAIN s : IsSpace(s[i]) THEN <<>>
    ELSE Slice(s, CHOOSE i \in DOMAIN s :
                     ~IsSpace(s[i]) /\ \A j \in 1..(i - 1) : IsSpace(s[j]), Len(s))

RStrip(s) ==
    IF \A i \in DOMAIN s : IsSpace(s[i]) THEN <<>>
    ELSE Slice(s, 1, CHOOSE i \in DOMAIN s :
                        ~IsSpace(s[i]) /\ \A j \in (i + 1)..Len(s) : IsSpace(s[j]))

\* str.strip()
Strip(s) == RStrip(LStrip(s))

\* str.split(sep) for a one-character separator: the pieces between separators
RECURSIVE SplitOn(_, _)
SplitOn(s, sep) ==
    IF \A i \in DOMAIN s : s[i] # sep THEN <<s>>
    ELSE LET p == CHOOSE i \in DOMAIN s : s[i] = sep /\ \A j \in 1..(i - 1) : s[j] # sep
         IN  <<Slice(s, 1, p - 1)>> \o SplitOn(Slice(s, p + 1, Len(s)), sep)

\* str.split(): the maximal runs of non-whitespace characters
RECURSIVE SplitWs(_)
SplitWs(s) ==
    LET t == LStrip(s)
    IN  IF t = <<>> THEN <<>>
        ELSE LET e == IF \A i \in DOMAIN t : ~IsSpace(t[i]) THEN Len(t)
                       ELSE (CHOOSE i \in DOMAIN t :
                                IsSpace(t[i]) /\ \A j \in 1..(i - 1) : ~IsSpace(t[j])) - 1
             IN  <<Slice(t, 1, e)>> \o SplitWs(Slice(t, e + 1, Len(t)))

\* " ".join(parts)
RECURSIVE JoinSp(_)
JoinSp(parts) ==
    IF parts = <<>> THEN <<>>
    ELSE IF Len(parts) = 1 THEN parts[1]
    ELSE parts[1] \o <<" ">> \o JoinSp(Tail(parts))

\* a in b, for strings
IsSubstring(a, b) ==
    \E i \in 1..(Len(b) + 1) :
        i + Len(a) - 1 <= Len(b) /\ Slice(b, i, i + Len(a) - 1) = a

AllDigits(s, a, b) == a <= b /\ b <= Len(s) /\ \A i \in a..b : IsDigit(s[i])

----------------------------------------------------------------------------
(* Normalizer.                                                             *)

\* [a-zA-Z0-9._%+-]
EmailLocalChar(c) == IsAlpha(c) \/ IsDigit(c) \/ c \in {".", "_", "%", "+", "-"}

\* [a-zA-Z0-9.-]
EmailDomainChar(c) == IsAlpha(c) \/ IsDigit(c) \/ c \in {".", "-"}

\* ^[a-zA-Z0-9._%+-]+@[a-zA-Z0-9.-]+\.[a-zA-Z]{2,}$ on the stripped string
EmailShape(e) ==
    \E a \in DOMAIN e : \E d \in DOMAIN e :
        /\ e[a] = "@"
        /\ e[d] = "."
        /\ a >= 2
        /\ \A i \in 1..(a - 1) : EmailLocalChar(e[i])
        /\ d >= a + 2
        /\ \A i \in (a + 1)..(d - 1) : EmailDomainChar(e[i])
        /\ Len(e) >= d + 2
        /\ \A i \in (d + 1)..Len(e) : IsAlpha(e[i])

ValidateEmail(email) == IF ~Truthy(email) THEN TRUE ELSE EmailShape(Strip(email))

\* \d{4}<sep>\d{1,2}<sep>\d{1,2} matching the whole of d
FullDateWith(d, sep) ==
    \E m \in {1, 2} : \E n \in {1, 2} :
        /\ Len(d) = 4 + 1 + m + 1 + n
        /\ AllDigits(d, 1, 4)
        /\ d[5] = sep
        /\ AllDigits(d, 6, 5 + m)
        /\ d[6 + m] = sep
        /\ AllDigits(d, 7 + m, 6 + m + n)

\* one of ^\d{4}/\d{1,2}/\d{1,2}$, ^\d{4}-\d{1,2}-\d{1,2}$, ^\d{4}$ matches d
DateShape(d) ==
    \/ FullDateWith(d, "/")
    \/ FullDateWith(d, "-")
    \/ (Len(d) = 4 /\ AllDigits(d, 1, 4))

ValidateDate(date_str) == IF ~Truthy(date_str) THEN FALSE ELSE DateShape(Strip(date_str))

\* str.zfill(2) of one or two digits
ZFill2(s) == IF Len(s) < 2 THEN <<"0">> \o s ELSE s

\* how many digits (\d{1,2}, greedy) the pattern takes from position p of d
Digits12(d, p) == IF AllDigits(d, p, p + 1) THEN 2 ELSE IF AllDigits(d, p, p) THEN 1 ELSE 0

\* re.match of (\d{4})<sep>(\d{1,2})<sep>(\d{1,2}) at the start of d: the lengths of
\* the month and day groups, <<0, 0>> when there is no match.  The month group gives
\* back a digit only when the separator does not follow its two digits.
DateGroups(d, sep, m) ==
    IF /\ m >= 1
       /\ m <= Digits12(d, 6)
       /\ Len(d) >= 6 + m
       /\ d[6 + m] = sep
       /\ Digits12(d, 7 + m) >= 1
    THEN <<m, Digits12(d, 7 + m)>> ELSE <<0, 0>>

FirstGroups(g2, g1) == IF g2 # <<0, 0>> THEN g2 ELSE g1

DatePrefix(d, sep) ==
    IF ~(AllDigits(d, 1, 4) /\ Len(d) >= 5 /\ d[5] = sep) THEN <<0, 0>>
    ELSE FirstGroups(DateGroups(d, sep, 2), DateGroups(d, sep, 1))

DateFrom(d, g) ==
    Slice(d, 1, 4) \o <<"-">> \o ZFill2(Slice(d, 6, 5 + g[1])) \o <<"-">>
        \o ZFill2(Slice(d, 7 + g[1], 6 + g[1] + g[2]))

\* the three patterns of _parse_date tried in order on the stripped string d
ParsedFrom(date_str, d, slash, dash) ==
    IF slash # <<0, 0>> THEN DateFrom(d, slash)
    ELSE IF dash # <<0, 0>> THEN DateFrom(d, dash)
    ELSE IF AllDigits(d, 1, 4) THEN Slice(d, 1, 4) \o <<"-", "0", "1", "-", "0", "1">>
    ELSE date_str

StrippedDate(date_str, d) == ParsedFrom(date_str, d, DatePrefix(d, "/"), DatePrefix(d, "-"))

ParseDate(date_str) ==
    IF ~Truthy(date_str) THEN None ELSE StrippedDate(date_str, Strip(date_str))

ExtractYearFromDate(date_str) ==
    IF ~Truthy(date_str) THEN None
    ELSE IF Len(date_str) >= 4 THEN Slice(date_str, 1, 4) ELSE None

NameOfParts(name_parts) ==
    IF Len(name_parts) = 1 THEN <<NA, name_parts[1]>>
    ELSE IF Len(name_parts) = 2 THEN <<name_parts[1], name_parts[2]>>
    ELSE <<name_parts[1], JoinSp(Tail(name_parts))>>

\* _parse_name: <<first_name, last_name>>
ParseName(full_name) ==
    IF ~Truthy(full_name) THEN <<NA, NA>> ELSE NameOfParts(SplitWs(full_name))

\* \b\d{4}\b matches at position i of s
YearAt(s, i) ==
    /\ AllDigits(s, i, i + 3)
    /\ (i = 1 \/ ~IsWord(s[i - 1]))
    /\ (i + 4 > Len(s) \/ ~IsWord(s[i + 4]))

\* the first position after the run of digits that starts at i
RECURSIVE DigitsEnd(_, _)
DigitsEnd(s, i) == IF i <= Len(s) /\ IsDigit(s[i]) THEN DigitsEnd(s, i + 1) ELSE i

OrdinalSuffixes == {<<"s", "t">>, <<"n", "d">>, <<"r", "d">>, <<"t", "h">>}

\* \b\d+(st|nd|rd|th)\b matches at position i of s: the position after the match, 0 if none
OrdinalEnd(s, i, e) ==
    IF /\ i <= Len(s)
       /\ IsDigit(s[i])
       /\ (i = 1 \/ ~IsWord(s[i - 1]))
       /\ e + 1 <= Len(s)
       /\ Slice(s, e, e + 1) \in OrdinalSuffixes
       /\ (e + 2 > Len(s) \/ ~IsWord(s[e + 2]))
    THEN e + 2 ELSE 0

OrdinalAt(s, i) == OrdinalEnd(s, i, DigitsEnd(s, i))

\* re.sub(r'\b\d{4}\b', '', s)
StripYears(s) ==
    KeepFrom(s, [k \in DOMAIN s |-> ~\E i \in DOMAIN s : YearAt(s, i) /\ i <= k /\ k <= i + 3], 1)

\* re.sub(r'\b\d+(st|nd|rd|th)\b', '', s)
StripOrdinals(s) ==
    KeepFrom(s, [k \in DOMAIN s |-> ~\E i \in DOMAIN s : i <= k /\ k < OrdinalAt(s, i)], 1)

\* re.sub(r'\s+', ' ', s)
CollapseWs(s) ==
    KeepFrom([k \in DOMAIN s |-> IF IsSpace(s[k]) THEN " " ELSE s[k]],
             [k \in DOMAIN s |-> ~(IsSpace(s[k]) /\ k > 1 /\ IsSpace(s[k - 1]))], 1)

\* _normalize_conference_name without the removal of ordinals
NormalizeWithoutOrdinals(conference_name) ==
    IF ~Truthy(conference_name) THEN conference_name
    ELSE Strip(CollapseWs(StripYears(conference_name)))

NormalizeConferenceName(conference_name) ==
    IF ~Truthy(conference_name) THEN conference_name
    ELSE Strip(CollapseWs(StripOrdinals(StripYears(conference_name))))

\* int() of a string of digits
RECURSIVE IntOf(_)
IntOf(s) == IF s = <<>> THEN 0 ELSE 10 * IntOf(Slice(s, 1, Len(s) - 1)) + DigitValue(s[Len(s)])

\* re.search(r'(\d+)', s): the first maximal run of digits
DigitsFrom(s, p) == IntOf(Slice(s, p, DigitsEnd(s, p) - 1))

ExtractCitations(citation_str) ==
    IF ~Truthy(citation_str) THEN 0
    ELSE IF \A i \in DOMAIN citation_str : ~IsDigit(citation_str[i]) THEN 0
    ELSE DigitsFrom(citation_str,
                    CHOOSE i \in DOMAIN citation_str :
                        IsDigit(citation_str[i]) /\ \A j \in 1..(i - 1) : ~IsDigit(citation_str[j]))

MarkerChars == {"*", "<dagger>", "<double-dagger>", "<section>", "<pilcrow>"}

\* re.sub(r'[*†‡§¶]', '', name)
StripMarkers(name) == SelectSeq(name, LAMBDA c : c \notin MarkerChars)

----------------------------------------------------------------------------
(* Similarity scorer and author resolver.                                  *)

NameWeight == 50

AffiliationWeight == 30

PartialAffiliationWeight == 15

EmailWeight == 20

MatchThreshold == 70

\* x or y
Or(x, y) == IF Truthy(x) THEN x ELSE y

\* dict.get(key), None when the key is absent
Get(rec, key) == IF key \in DOMAIN rec THEN rec[key] ELSE None

\* NameScore with a missing name part compared as "n/a", the way it is stored
NameScoreBySentinel(author1, first_name, last_name) ==
    IF /\ Lower(author1.first_name) = Lower(Or(first_name, NA))
       /\ Lower(author1.last_name) = Lower(Or(last_name, NA))
    THEN NameWeight ELSE 0

\* the score in hundredths: 0.5, 0.3, 0.15 and 0.2 add up in floating point to sums
\* that compare with each other and with 0.7 as the exact sums do
NameScore(author1, first_name, last_name) ==
    IF /\ Lower(author1.first_name) = Lower(Or(first_name, <<>>))
       /\ Lower(author1.last_name) = Lower(Or(last_name, <<>>))
    THEN NameWeight ELSE 0

AffiliationScore(author1, affiliation) ==
    IF Truthy(affiliation) /\ Truthy(author1.affiliation) /\ author1.affiliation # NA
    THEN IF Lower(affiliation) = Lower(author1.affiliation) THEN AffiliationWeight
         ELSE IF \/ IsSubstring(Lower(affiliation), Lower(author1.affiliation))
                 \/ IsSubstring(Lower(author1.affiliation), Lower(affiliation))
              THEN PartialAffiliationWeight ELSE 0
    ELSE 0

EmailScore(author1, email) ==
    IF Truthy(email) /\ Truthy(author1.email) /\ author1.email # NA
       /\ Lower(email) = Lower(author1.email)
    THEN EmailWeight ELSE 0

AuthorSimilarityScore(author1, first_name, last_name, affiliation, email) ==
    NameScore(author1, first_name, last_name) + AffiliationScore(author1, affiliation)
        + EmailScore(author1, email)

\* Better with a candidate of equal score taking the place of the best so far
BetterOrEqual(best, k, score) ==
    IF score >= best[2] /\ score >= MatchThreshold THEN <<k, score>> ELSE best

\* the scan of _get_or_create_author from author k on: <<best_match_id, best_score>>,
\* best_match_id 0 standing for None
RECURSIVE BestMatch(_, _, _, _, _, _, _)
Better(best, k, score) ==
    IF score > best[2] /\ score >= MatchThreshold THEN <<k, score>> ELSE best

BestMatch(auths, k, best, first_name, last_name, affiliation, email) ==
    IF k > Len(auths) THEN best
    ELSE BestMatch(auths, k + 1,
                   Better(best, k, AuthorSimilarityScore(auths[k], first_name, last_name,
                                                         affiliation, email)),
                   first_name, last_name, affiliation, email)

\* MergeAuthor without the test for "n/a": a supplied value always replaces the stored one
MergeAuthorOverwriting(author, affiliation, email) ==
    [author EXCEPT
        !.affiliation = IF Truthy(affiliation) THEN affiliation ELSE @,
        !.email = IF Truthy(email) THEN email ELSE @]

\* the update of a matched author: a field is set only where the record holds "n/a"
MergeAuthor(author, affiliation, email) ==
    [author EXCEPT
        !.affiliation = IF Truthy(affiliation) /\ author.affiliation = NA THEN affiliation ELSE @,
        !.email = IF Truthy(email) /\ author.email = NA THEN email ELSE @]

NewAuthor(author_id, first_name, last_name, affiliation, email) ==
    [id |-> author_id,
     first_name |-> Or(first_name, NA),
     last_name |-> Or(last_name, NA),
     full_name |-> IF Truthy(first_name) /\ Truthy(last_name)
                   THEN Strip(first_name \o <<" ">> \o last_name) ELSE NA,
     affiliation |-> Or(affiliation, NA),
     email |-> Or(email, NA),
     papers |-> <<>>,
     total_citations |-> 0]

\* _get_or_create_author on the authors mapping auths: the new mapping and the id returned
\* what _get_or_create_author does once the scan has ended with best_match_id
Resolved(auths, best_match_id, first_name, last_name, affiliation, email) ==
    IF best_match_id # 0
    THEN [authors |-> [auths EXCEPT ![best_match_id] = MergeAuthor(@, affiliation, email)],
          id |-> best_match_id]
    ELSE [authors |-> Append(auths, NewAuthor(Len(auths) + 1, first_name, last_name,
                                              affiliation, email)),
          id |-> Len(auths) + 1]

GetOrCreateAuthor(auths, first_name, last_name, affiliation, email) ==
    Resolved(auths,
             BestMatch(auths, 1, <<0, 0>>, first_name, last_name, affiliation, email)[1],
             first_name, last_name, affiliation, email)

\* ByParsedName with the earliest author of the same name reused when there is one
ByParsedNameReusing(auths, parsed_name) ==
    IF \E k \in DOMAIN auths : NameScore(auths[k], parsed_name[1], parsed_name[2]) > 0
    THEN [authors |-> auths,
          id |-> CHOOSE k \in DOMAIN auths :
                    /\ NameScore(auths[k], parsed_name[1], parsed_name[2]) > 0
                    /\ \A h \in 1..(k - 1) :
                          NameScore(auths[h], parsed_name[1], parsed_name[2]) = 0]
    ELSE GetOrCreateAuthor(auths, parsed_name[1], parsed_name[2], None, None)

ByParsedName(auths, parsed_name) ==
    GetOrCreateAuthor(auths, parsed_name[1], parsed_name[2], None, None)

GetOrCreateAuthorByName(auths, name) == ByParsedName(auths, ParseName(name))

\* IsCorresponding with every marker glyph taken as the mark of a corresponding author
IsCorrespondingByAnyMarker(name) == \E i \in DOMAIN name : name[i] \in MarkerChars

\* a name piece carries the corresponding-author mark
IsCorresponding(name) == \E i \in DOMAIN name : name[i] = "*"

\* the body of the loop of _parse_authors once the author of the piece is resolved
Collected(acc, name, got) ==
    [authors |-> got.authors,
     ids |-> Append(acc.ids, got.id),
     corresponding |-> IF IsCorresponding(name) THEN Append(acc.corresponding, got.id)
                       ELSE acc.corresponding]

\* the body of the loop of _parse_authors for one piece
ParsePiece(acc, name, clean_name) ==
    IF clean_name = <<>> THEN acc
    ELSE Collected(acc, name, GetOrCreateAuthorByName(acc.authors, clean_name))

\* the loop of _parse_authors over the pieces from k on
RECURSIVE ParsePieces(_, _, _)
ParsePieces(acc, author_names, k) ==
    IF k > Len(author_names) THEN acc
    ELSE ParsePieces(ParsePiece(acc, author_names[k], Strip(StripMarkers(author_names[k]))),
                     author_names, k + 1)

StrippedPieces(pieces) == [i \in DOMAIN pieces |-> Strip(pieces[i])]

\* _parse_authors: the new authors mapping, the author ids and the corresponding ones
ParseAuthors(auths, authors_str) ==
    IF ~Truthy(authors_str) THEN [authors |-> auths, ids |-> <<>>, corresponding |-> <<>>]
    ELSE ParsePieces([authors |-> auths, ids |-> <<>>, corresponding |-> <<>>],
                     StrippedPieces(SplitOn(authors_str, ",")), 1)

----------------------------------------------------------------------------
(* Venue resolver.                                                         *)

JOURNAL == <<"j", "o", "u", "r", "n", "a", "l">>

CONFERENCE == <<"c", "o", "n", "f", "e", "r", "e", "n", "c", "e">>

\* the key a call of type venue_type is compared on
VenueKey(venue_name, venue_type) ==
    IF venue_type = CONFERENCE THEN NormalizeConferenceName(venue_name) ELSE venue_name

\* the name of a stored record that a call of type venue_type compares with
StoredName(venue_info, venue_type) ==
    IF venue_type = CONFERENCE
    THEN IF "normalized_name" \in DOMAIN venue_info THEN venue_info.normalized_name
         ELSE IF "name" \in DOMAIN venue_info THEN venue_info.name ELSE <<>>
    ELSE IF "name" \in DOMAIN venue_info THEN venue_info.name ELSE <<>>

\* VenueMatches restricted to records of the call's own type
VenueMatchesSameType(venue_info, normalized_name, venue_type) ==
    /\ venue_info.type = venue_type
    /\ Lower(StoredName(venue_info, venue_type)) = Lower(normalized_name)

\* a stored record matches the key normalized_name of a call of type venue_type
VenueMatches(venue_info, normalized_name, venue_type) ==
    Lower(StoredName(venue_info, venue_type)) = Lower(normalized_name)

\* BackFill without the test for "n/a": a supplied value replaces whatever the field holds
BackFillOverwriting(venue_info, key, value) ==
    IF Truthy(value) /\ key \in DOMAIN venue_info
    THEN [venue_info EXCEPT ![key] = value] ELSE venue_info

\* a classification field is set only where the record holds it at "n/a"
BackFill(venue_info, key, value) ==
    IF Truthy(value) /\ Get(venue_info, key) = NA
    THEN [venue_info EXCEPT ![key] = value] ELSE venue_info

\* the update of a matched venue
\* a record matched by a conference call gets the normalized_name field if it has none
WithNormalizedName(venue_info, normalized_name, venue_type) ==
    IF venue_type = CONFERENCE /\ "normalized_name" \notin DOMAIN venue_info
    THEN venue_info @@ ("normalized_name" :> normalized_name)
    ELSE venue_info

MergeVenue(venue_info, normalized_name, venue_type, cas_division, jcr_division, ccf_class) ==
    WithNormalizedName(BackFill(BackFill(BackFill(venue_info, "cas_division", cas_division),
                                         "jcr_division", jcr_division),
                                "ccf_class", ccf_class),
                       normalized_name, venue_type)

\* the fields only a conference record has
ConferenceFields(venue_record, normalized_name, venue_type, ccf_class) ==
    IF venue_type = CONFERENCE
    THEN venue_record @@ ("normalized_name" :> normalized_name)
                      @@ ("ccf_class" :> Or(ccf_class, NA))
    ELSE venue_record

\* the fields only a journal record has
JournalFields(venue_record, venue_type, cas_division, jcr_division, ccf_class) ==
    IF venue_type = JOURNAL
    THEN venue_record @@ ("cas_division" :> Or(cas_division, NA))
                      @@ ("jcr_division" :> Or(jcr_division, NA))
                      @@ ("ccf_class" :> Or(ccf_class, NA))
    ELSE venue_record

NewVenue(venue_id, venue_name, normalized_name, venue_type, publisher, cas_division, jcr_division, ccf_class) ==
    JournalFields(ConferenceFields([id |-> venue_id,
                                    name |-> venue_name,
                                    type |-> venue_type,
                                    publisher |-> Or(publisher, NA),
                                    papers |-> <<>>,
                                    total_citations |-> 0],
                                   normalized_name, venue_type, ccf_class),
                  venue_type, cas_division, jcr_division, ccf_class)

\* the first record in insertion order that matches, 0 when none does
FirstMatch(vens, normalized_name, venue_type) ==
    IF \E k \in DOMAIN vens : VenueMatches(vens[k], normalized_name, venue_type)
    THEN CHOOSE k \in DOMAIN vens :
            /\ VenueMatches(vens[k], normalized_name, venue_type)
            /\ \A j \in 1..(k - 1) : ~VenueMatches(vens[j], normalized_name, venue_type)
    ELSE 0

\* ResolvedVenue with the new record never put into the mapping
ResolvedVenueNotStored(vens, venue_id, venue_name, normalized_name, venue_type, publisher, cas_division, jcr_division, ccf_class) ==
    IF venue_id # 0
    THEN [venues |-> [vens EXCEPT ![venue_id] =
                         MergeVenue(@, normalized_name, venue_type,
                                    cas_division, jcr_division, ccf_class)],
          id |-> venue_id]
    ELSE [venues |-> vens, id |-> Len(vens) + 1]

\* what _get_or_create_venue does once the scan has ended at record venue_id (0: no match)
ResolvedVenue(vens, venue_id, venue_name, normalized_name, venue_type, publisher, cas_division, jcr_division, ccf_class) ==
    IF venue_id # 0
    THEN [venues |-> [vens EXCEPT ![venue_id] =
                         MergeVenue(@, normalized_name, venue_type,
                                    cas_division, jcr_division, ccf_class)],
          id |-> venue_id]
    ELSE [venues |-> Append(vens, NewVenue(Len(vens) + 1, venue_name, normalized_name,
                                           venue_type, publisher,
                                           cas_division, jcr_division, ccf_class)),
          id |-> Len(vens) + 1]

ScanVenues(vens, venue_name, normalized_name, venue_type, publisher, cas_division, jcr_division, ccf_class) ==
    ResolvedVenue(vens, FirstMatch(vens, normalized_name, venue_type), venue_name,
                  normalized_name, venue_type, publisher, cas_division, jcr_division, ccf_class)

\* _get_or_create_venue on the venues mapping vens: the new mapping and the id returned
GetOrCreateVenue(vens, venue_name, venue_type, publisher, cas_division, jcr_division, ccf_class) ==
    ScanVenues(vens, venue_name, VenueKey(venue_name, venue_type), venue_type, publisher,
               cas_division, jcr_division, ccf_class)

----------------------------------------------------------------------------
(* add_paper and add_author.                                               *)

AbstractLimit == 1000

Ellipsis == <<".", ".", ".">>

\* the six checks of add_paper in order: 0 when the input passes, else the failing check
ValidationError(a) ==
    IF ~Truthy(a.title) \/ Strip(a.title) = <<>> THEN 1
    ELSE IF ~Truthy(a.authors) \/ Strip(a.authors) = <<>> THEN 2
    ELSE IF ~Truthy(a.publication_date) \/ ~ValidateDate(a.publication_date) THEN 3
    ELSE IF a.paper_type \notin {JOURNAL, CONFERENCE} THEN 4
    ELSE IF ~Truthy(a.venue_name) \/ Strip(a.venue_name) = <<>> THEN 5
    ELSE IF /\ TruthyList(a.author_emails)
            /\ \E i \in DOMAIN a.author_emails :
                  Truthy(a.author_emails[i]) /\ ~ValidateEmail(a.author_emails[i])
         THEN 6
    ELSE 0

\* a side list padded with None up to n entries (never shortened)
Padded(list, n) ==
    LET l == IF TruthyList(list) THEN list ELSE <<>>
    IN  [i \in 1..(IF Len(l) < n THEN n ELSE Len(l)) |-> IF i <= Len(l) THEN l[i] ELSE None]

\* the loop that fills affiliation and email of the paper's authors from the side lists
RECURSIVE FillDetails(_, _, _, _, _)
FillDetails(auths, author_ids, affiliations, emails, i) ==
    IF i > Len(author_ids) THEN auths
    ELSE FillDetails(IF author_ids[i] \in DOMAIN auths
                     THEN [auths EXCEPT ![author_ids[i]] =
                              MergeAuthor(@, affiliations[i], emails[i])]
                     ELSE auths,
                     author_ids, affiliations, emails, i + 1)

WithDetails(auths, author_ids, author_affiliations, author_emails) ==
    IF TruthyList(author_affiliations) \/ TruthyList(author_emails)
    THEN FillDetails(auths, author_ids,
                     Padded(author_affiliations, Len(author_ids)),
                     Padded(author_emails, Len(author_ids)), 1)
    ELSE auths

\* the loop that appends the paper to each of its authors and adds its citations
RECURSIVE CreditAuthors(_, _, _, _, _)
CreditAuthors(auths, author_ids, paper_id, citations_count, i) ==
    IF i > Len(author_ids) THEN auths
    ELSE CreditAuthors(IF author_ids[i] \in DOMAIN auths
                       THEN [auths EXCEPT ![author_ids[i]].papers = Append(@, paper_id),
                                          ![author_ids[i]].total_citations = @ + citations_count]
                       ELSE auths,
                       author_ids, paper_id, citations_count, i + 1)

\* CreditVenue with the venue's papers list holding the latest paper only
CreditVenueLatestOnly(vens, venue_id, paper_id, citations_count) ==
    IF venue_id \in DOMAIN vens
    THEN [vens EXCEPT ![venue_id].papers = <<paper_id>>,
                      ![venue_id].total_citations = @ + citations_count]
    ELSE vens

\* CreditVenue with the citation total assigned instead of added to
CreditVenueAssigned(vens, venue_id, paper_id, citations_count) ==
    IF venue_id \in DOMAIN vens
    THEN [vens EXCEPT ![venue_id].papers = Append(@, paper_id),
                      ![venue_id].total_citations = citations_count]
    ELSE vens

CreditVenue(vens, venue_id, paper_id, citations_count) ==
    IF venue_id \in DOMAIN vens
    THEN [vens EXCEPT ![venue_id].papers = Append(@, paper_id),
                      ![venue_id].total_citations = @ + citations_count]
    ELSE vens

StoredAbstract(abstract) ==
    IF Truthy(abstract) /\ Len(abstract) > AbstractLimit
    THEN Slice(abstract, 1, AbstractLimit) \o Ellipsis
    ELSE Or(abstract, NA)

\* the paper record of add_paper (created_at, the wall-clock time, is left out)
PaperRecord(a, paper_id, author_ids, corresponding_author_ids, parsed_date, venue_id, citations_count) ==
    [id |-> paper_id,
     title |-> Strip(a.title),
     type |-> a.paper_type,
     authors |-> author_ids,
     corresponding_authors |-> corresponding_author_ids,
     publication_date |-> parsed_date,
     publication_year |-> ExtractYearFromDate(parsed_date),
     venue_id |-> venue_id,
     volume |-> a.volume,
     issue |-> a.issue,
     pages |-> Or(a.pages, NA),
     publisher |-> Or(a.publisher, NA),
     abstract |-> StoredAbstract(a.abstract),
     total_citations |-> citations_count]

\* add_paper from the paper record on: the record is stored, then its authors and its
\* venue are credited
Stored(a, paper_id, parsed, detailed, venue, citations_count) ==
    [papers |-> Append(papers, PaperRecord(a, paper_id, parsed.ids, parsed.corresponding,
                                           ParseDate(a.publication_date), venue.id,
                                           citations_count)),
     authors |-> CreditAuthors(detailed, parsed.ids, paper_id, citations_count, 1),
     venues |-> CreditVenue(venue.venues, venue.id, paper_id, citations_count),
     id |-> paper_id]

\* add_paper from the side lists on, the authors string being parsed
Detailed(a, parsed) ==
    Stored(a, Len(papers) + 1, parsed,
           WithDetails(parsed.authors, parsed.ids, a.author_affiliations, a.author_emails),
           GetOrCreateVenue(venues, a.venue_name, a.paper_type, a.publisher,
                            a.cas_division, a.jcr_division, a.ccf_class),
           ExtractCitations(a.total_citations))

\* the store after the body of add_paper has run on a validated input a, and the id returned
PaperAdded(a) == Detailed(a, ParseAuthors(authors, a.authors))

MaxCalls == 3

Called(op, a, err, ret) == [op |-> op, args |-> a, err |-> err, ret |-> ret]

Rejected(op, a, err) ==
    /\ UNCHANGED store
    /\ log' = Append(log, Called(op, a, err, 0))

PaperCommitted(a, added) ==
    /\ papers' = added.papers
    /\ authors' = added.authors
    /\ venues' = added.venues
    /\ log' = Append(log, Called("add_paper", a, 0, added.id))

\* PaperChecked with the email check run after the authors string was parsed
PaperCheckedAfterParsing(a, err) ==
    IF err = 6
    THEN /\ authors' = ParseAuthors(authors, a.authors).authors
         /\ UNCHANGED <<papers, venues>>
         /\ log' = Append(log, Called("add_paper", a, err, 0))
    ELSE IF err # 0 THEN Rejected("add_paper", a, err) ELSE PaperCommitted(a, PaperAdded(a))

PaperChecked(a, err) ==
    IF err # 0 THEN Rejected("add_paper", a, err) ELSE PaperCommitted(a, PaperAdded(a))

\* add_paper(a): a ValueError and nothing else when a check fails
AddPaper(a) ==
    /\ Len(log) < MaxCalls
    /\ PaperChecked(a, ValidationError(a))

\* the two checks of add_author: 0 when the input passes
AuthorValidationError(a) ==
    IF ~Truthy(a.first_name) /\ ~Truthy(a.last_name) THEN 1
    ELSE IF Truthy(a.email) /\ ~ValidateEmail(a.email) THEN 2
    ELSE 0

AuthorCommitted(a, got) ==
    /\ authors' = got.authors
    /\ UNCHANGED <<papers, venues>>
    /\ log' = Append(log, Called("add_author", a, 0, got.id))

AuthorChecked(a, err) ==
    IF err # 0 THEN Rejected("add_author", a, err)
    ELSE AuthorCommitted(a, GetOrCreateAuthor(authors, a.first_name, a.last_name,
                                              a.affiliation, a.email))

\* add_author(a): a ValueError and nothing else when a check fails
AddAuthor(a) ==
    /\ Len(log) < MaxCalls
    /\ AuthorChecked(a, AuthorValidationError(a))

Init ==
    /\ papers = <<>>
    /\ authors = <<>>
    /\ venues = <<>>
    /\ log = <<>>

----------------------------------------------------------------------------
(* Lookups.  A lookup returns the stored record, or None for an unknown    *)
(* identifier, and leaves the store alone.                                 *)

\* dict.get(key, default)
GetOr(rec, key, default) == IF key \in DOMAIN rec THEN rec[key] ELSE default

\* mapping.get(id)
Lookup(mapping, id) == IF id \in DOMAIN mapping THEN mapping[id] ELSE None

Returned(op, id, ret) ==
    /\ UNCHANGED store
    /\ log' = Append(log, Called(op, id, 0, ret))

GetPaper(paper_id) ==
    /\ Len(log) < MaxCalls
    /\ Returned("get_paper", paper_id, Lookup(papers, paper_id))

GetAuthor(author_id) ==
    /\ Len(log) < MaxCalls
    /\ Returned("get_author", author_id, Lookup(authors, author_id))

GetVenue(venue_id) ==
    /\ Len(log) < MaxCalls
    /\ Returned("get_venue", venue_id, Lookup(venues, venue_id))

\* the entry of authors_details for one author of the paper
AuthorDetail(paper, author_id) ==
    [id |-> author_id,
     first_name |-> GetOr(authors[author_id], "first_name", NA),
     last_name |-> GetOr(authors[author_id], "last_name", NA),
     full_name |-> GetOr(authors[author_id], "full_name", NA),
     affiliation |-> GetOr(authors[author_id], "affiliation", NA),
     email |-> GetOr(authors[author_id], "email", NA),
     is_corresponding |-> \E m \in DOMAIN paper.corresponding_authors :
                              paper.corresponding_authors[m] = author_id]

KnownAuthors(author_ids) == SelectSeq(author_ids, LAMBDA author_id : author_id \in DOMAIN authors)

AuthorsDetails(paper, known) == [m \in DOMAIN known |-> AuthorDetail(paper, known[m])]

\* venue_details: four common fields and the classification fields of the venue's type
VenueDetail(venue) ==
    [id |-> venue.id,
     name |-> GetOr(venue, "name", NA),
     type |-> GetOr(venue, "type", NA),
     publisher |-> GetOr(venue, "publisher", NA)]
    @@ (IF venue.type = JOURNAL
        THEN [cas_division |-> GetOr(venue, "cas_division", NA),
              jcr_division |-> GetOr(venue, "jcr_division", NA),
              ccf_class |-> GetOr(venue, "ccf_class", NA)]
        ELSE [normalized_name |-> GetOr(venue, "normalized_name", NA),
              ccf_class |-> GetOr(venue, "ccf_class", NA)])

VenueDetails(venue_id) ==
    IF venue_id \in DOMAIN venues THEN VenueDetail(venues[venue_id]) ELSE None

\* the paper with its two detail fields
PaperWithDetails(paper) ==
    paper @@ [authors_details |-> AuthorsDetails(paper, KnownAuthors(paper.authors)),
              venue_details |-> VenueDetails(paper.venue_id)]

GetPaperWithDetails(paper_id) ==
    /\ Len(log) < MaxCalls
    /\ Returned("get_paper_with_details", paper_id,
                IF paper_id \in DOMAIN papers THEN PaperWithDetails(papers[paper_id])
                ELSE None)

----------------------------------------------------------------------------
(* Import.  A file is missing, holds bytes that the decoder rejects, or    *)
(* decodes to a value: a list, or a mapping data with some of the keys     *)
(* papers, authors, venues and metadata.  A metadata value is a mapping    *)
(* with its set of keys, or null.                                          *)

\* data.get(key, {}) for one of the three mappings
DataGet(data, key) == IF key \in DOMAIN data THEN data[key] ELSE <<>>

\* data.get('metadata', {})
MetadataOf(data) ==
    IF "metadata" \in DOMAIN data THEN data.metadata ELSE [type |-> "dict", keys |-> {}]

\* the step at which reading file f fails before any assignment: opening it (1), decoding
\* it (2), the first data.get on a value that is no mapping (3); 0 when none fails
DecodeError(f) ==
    CASE f.kind = "missing" -> 1
      [] f.kind = "corrupt" -> 2
      [] f.kind = "list" -> 3
      [] OTHER -> 0

\* the three assignments from the decoded mapping
Restored(data) ==
    /\ papers' = DataGet(data, "papers")
    /\ authors' = DataGet(data, "authors")
    /\ venues' = DataGet(data, "venues")

JsonLoaded(f, err) ==
    IF err # 0 THEN Rejected("load_from_json", f, err)
    ELSE /\ Restored(f.data)
         /\ log' = Append(log, Called("load_from_json", f, 0, 0))

\* load_from_json(f): the exception of open, json.load or data.get reaches the caller
LoadFromJson(f) ==
    /\ Len(log) < MaxCalls
    /\ JsonLoaded(f, DecodeError(f))

\* the report that load_from_pickle prints after the assignments: 'saved_at' in metadata
\* raises TypeError (4) on a metadata that is null
ReportError(metadata) == IF metadata.type = "null" THEN 4 ELSE 0

PickleLoaded(f, err) ==
    IF err # 0 THEN Rejected("load_from_pickle", f, err)
    ELSE /\ Restored(f.data)
         /\ log' = Append(log, Called("load_from_pickle", f, ReportError(MetadataOf(f.data)), 0))

\* load_from_pickle(f): every exception of the body is raised again as Exception
LoadFromPickle(f) ==
    /\ Len(log) < MaxCalls
    /\ PickleLoaded(f, DecodeError(f))

----------------------------------------------------------------------------
(* Inputs.  Each specification below draws the arguments of its calls from *)
(* small sets of concrete strings.                                         *)

sTitle == <<"T">>

sBlank == <<" ">>

\* authors strings: "K L", "K L*,K L" and "M" followed by a dagger
sKL == <<"K", " ", "L">>

sKLStarKL == <<"K", " ", "L", "*", ",", "K", " ", "L">>

sMDagger == <<"M", "<dagger>">>

sDate == <<"2", "0", "1", "9", "/", "7", "/", "1">>

sBadDate == <<"7", "/", "2", "0", "1", "9">>

sBook == <<"b", "o", "o", "k">>

\* venue names: "X", "2022 X", "3rd x" and "22 X"
sX == <<"X">>

sYearX == <<"2", "0", "2", "2", " ", "X">>

sOrdinalX == <<"3", "r", "d", " ", "x">>

sNumberX == <<"2", "2", " ", "X">>

sCited == <<"b", "y", " ", "8">>

\* affiliations: "U", "U2" (which contains "U") and emails
sAffU == <<"U">>

sAffU2 == <<"U", "2">>

sMail1 == <<"a", "@", "b", ".", "c", "c">>

sMail1Upper == <<"A", "@", "b", ".", "c", "c">>

sMail2 == <<"c", "@", "b", ".", "c", "c">>

sBadMail == <<"a", "@", "b">>

sK == <<"K">>

sKLower == <<"k">>

sL == <<"L">>

BasePaper ==
    [title |-> sTitle, authors |-> sKL, publication_date |-> sDate, paper_type |-> JOURNAL,
     venue_name |-> sX, volume |-> None, issue |-> None, pages |-> None, publisher |-> None,
     abstract |-> None, total_citations |-> None, author_affiliations |-> NoList,
     author_emails |-> NoList, cas_division |-> None, jcr_division |-> None, ccf_class |-> None]

\* the general mix: papers that share venues and names, with and without side lists
PaperArgs ==
    { [BasePaper EXCEPT !.authors = au, !.paper_type = ty, !.venue_name = ve,
                         !.total_citations = ci, !.author_affiliations = de[1],
                         !.author_emails = de[2]] :
        au \in {sKLStarKL, sMDagger}, ty \in {JOURNAL, CONFERENCE}, ve \in {sX, sYearX},
        ci \in {None, sCited}, de \in {<<NoList, NoList>>, <<(<<sAffU>>), (<<sMail1>>)>>} }
    \cup { [BasePaper EXCEPT !.title = sBlank],
           [BasePaper EXCEPT !.author_emails = <<sBadMail>>] }

AuthorArgs ==
    { [first_name |-> fi, last_name |-> sL, affiliation |-> af, email |-> em] :
        fi \in {None, sK}, af \in {None, sAffU}, em \in {None, sMail1} }
    \cup { [first_name |-> None, last_name |-> None, affiliation |-> None, email |-> None] }

\* every combination of a passing and a failing value for the six checks of add_paper
ValidationArgs ==
    { [BasePaper EXCEPT !.title = ti, !.authors = au, !.publication_date = da,
                         !.paper_type = ty, !.venue_name = ve, !.author_emails = em,
                         !.author_affiliations = <<sAffU>>, !.total_citations = sCited] :
        ti \in {<<>>, sTitle}, au \in {sBlank, sKL}, da \in {sBadDate, sDate},
        ty \in {sBook, CONFERENCE}, ve \in {None, sYearX},
        em \in {<<sBadMail>>, <<sMail1>>} }

ValidationAuthorArgs ==
    { [first_name |-> sK, last_name |-> sL, affiliation |-> None, email |-> em] :
        em \in {sMail1, sBadMail} }

\* author resolution: papers with side lists, and add_author with every field varied
AuthorPaperArgs ==
    { [BasePaper EXCEPT !.authors = au, !.author_affiliations = af, !.author_emails = em] :
        au \in {sKL, sKLStarKL}, af \in {NoList, <<sAffU>>, <<sAffU, sAffU>>},
        em \in {NoList, <<sMail1>>} }

AuthorFocusArgs ==
    { [first_name |-> fi, last_name |-> sL, affiliation |-> af, email |-> em] :
        fi \in {None, sK, sKLower}, af \in {None, sAffU, sAffU2},
        em \in {None, sMail1, sMail2} }

\* venue resolution: both types, names that differ by year, ordinal and case, and
\* classification labels that are absent, partly given, or given in full
Classifications ==
    { <<None, None, None>>, <<(<<"1">>), None, (<<"A">>)>>, <<(<<"2">>), (<<"Q">>), (<<"B">>)>> }

VenuePaperArgs ==
    { [BasePaper EXCEPT !.paper_type = ty, !.venue_name = ve, !.cas_division = cl[1],
                         !.jcr_division = cl[2], !.ccf_class = cl[3]] :
        ty \in {JOURNAL, CONFERENCE}, ve \in {sX, sYearX, sOrdinalX, sNumberX},
        cl \in Classifications }

\* marker glyphs: "K" with a double dagger and a star, "M" with a section sign, a lone
\* star, a lone dagger and "L" with a pilcrow
sMarkedNames ==
    <<"K", "<double-dagger>", "*", ",", "M", "<section>", ",", "*", ",", " ", "<dagger>",
      ",", "L", "<pilcrow>">>

MarkerPaperArgs ==
    { [BasePaper EXCEPT !.authors = au, !.venue_name = ve] :
        au \in {sKL, sKLStarKL, sMDagger, sMarkedNames}, ve \in {sX, sYearX} }

\* import: files that are missing, undecodable, a list, and snapshots of the store that
\* holds the one author "K L", with a metadata block that is whole, null or absent,
\* and a snapshot with a metadata block only
ImportAuthorArgs ==
    { [first_name |-> sK, last_name |-> sL, affiliation |-> None, email |-> None],
      [first_name |-> sK, last_name |-> sL, affiliation |-> sAffU, email |-> sMail1] }

SavedMetadata ==
    [type |-> "dict",
     keys |-> {"total_papers", "total_authors", "total_venues", "saved_at", "version"}]

NullMetadata == [type |-> "null"]

SavedAuthors == <<NewAuthor(1, sK, sL, None, None)>>

Files ==
    { [kind |-> "missing"], [kind |-> "corrupt"], [kind |-> "list"],
      [kind |-> "mapping",
       data |-> [papers |-> <<>>, authors |-> SavedAuthors, venues |-> <<>>,
                 metadata |-> SavedMetadata]],
      [kind |-> "mapping",
       data |-> [papers |-> <<>>, authors |-> SavedAuthors, venues |-> <<>>,
                 metadata |-> NullMetadata]],
      [kind |-> "mapping",
       data |-> [papers |-> <<>>, authors |-> SavedAuthors, venues |-> <<>>]],
      [kind |-> "mapping", data |-> [metadata |-> SavedMetadata]] }

\* the life of the records: papers that share venues and differ in citations and
\* classification, authors who match one another, and lookups of known and unknown ids
LifecyclePaperArgs ==
    { [BasePaper EXCEPT !.authors = au, !.paper_type = ty, !.venue_name = ve,
                         !.total_citations = ci, !.ccf_class = cl] :
        au \in {sKL, sKLStarKL}, ty \in {JOURNAL, CONFERENCE}, ve \in {sX, sYearX},
        ci \in {None, sCited}, cl \in {None, <<"A">>} }

LifecycleAuthorArgs ==
    { [first_name |-> sK, last_name |-> sL, affiliation |-> af, email |-> em] :
        af \in {None, sAffU}, em \in {None, sMail1} }

LookupIds == 1..MaxCalls

\* authors with a name part that is absent or empty, with and without affiliation and email
NamelessAuthorArgs ==
    { [first_name |-> na[1], last_name |-> na[2], affiliation |-> af, email |-> em] :
        na \in {<<None, sL>>, <<(<<>>), sL>>, <<sK, None>>, <<sK, (<<>>)>>, <<sK, sL>>},
        af \in {None, sAffU}, em \in {None, sMail1} }

----------------------------------------------------------------------------
(* Specifications.                                                         *)

AddPaperStep == \E a \in PaperArgs : AddPaper(a)

AddAuthorStep == \E a \in AuthorArgs : AddAuthor(a)

Next == AddPaperStep \/ AddAuthorStep

Spec == Init /\ [][Next]_vars

ValidationPaperStep == \E a \in ValidationArgs : AddPaper(a)

ValidationAuthorStep == \E a \in ValidationAuthorArgs : AddAuthor(a)

NextValidation == ValidationPaperStep \/ ValidationAuthorStep

SpecValidation == Init /\ [][NextValidation]_vars

AuthorPaperStep == \E a \in AuthorPaperArgs : AddPaper(a)

AuthorFocusStep == \E a \in AuthorFocusArgs : AddAuthor(a)

NextAuthors == AuthorPaperStep \/ AuthorFocusStep

SpecAuthors == Init /\ [][NextAuthors]_vars

VenuePaperStep == \E a \in VenuePaperArgs : AddPaper(a)

NextVenues == VenuePaperStep

SpecVenues == Init /\ [][NextVenues]_vars

MarkerPaperStep == \E a \in MarkerPaperArgs : AddPaper(a)

NextMarkers == MarkerPaperStep

SpecMarkers == Init /\ [][NextMarkers]_vars

ImportAuthorStep == \E a \in ImportAuthorArgs : AddAuthor(a)

LoadJsonStep == \E f \in Files : LoadFromJson(f)

LoadPickleStep == \E f \in Files : LoadFromPickle(f)

NextImport == ImportAuthorStep \/ LoadJsonStep \/ LoadPickleStep

SpecImport == Init /\ [][NextImport]_vars

LifecyclePaperStep == \E a \in LifecyclePaperArgs : AddPaper(a)

LifecycleAuthorStep == \E a \in LifecycleAuthorArgs : AddAuthor(a)

GetPaperStep == \E id \in LookupIds : GetPaper(id)

GetAuthorStep == \E id \in LookupIds : GetAuthor(id)

GetVenueStep == \E id \in LookupIds : GetVenue(id)

GetPaperWithDetailsStep == \E id \in LookupIds : GetPaperWithDetails(id)

NextLifecycle ==
    \/ LifecyclePaperStep
    \/ LifecycleAuthorStep
    \/ GetPaperStep
    \/ GetAuthorStep
    \/ GetVenueStep
    \/ GetPaperWithDetailsStep

SpecLifecycle == Init /\ [][NextLifecycle]_vars

NamelessAuthorStep == \E a \in NamelessAuthorArgs : AddAuthor(a)

NextNameless == NamelessAuthorStep

SpecNameless == Init /\ [][NextNameless]_vars

----------------------------------------------------------------------------
(* Vocabulary of the properties.                                           *)

Range(f) == {f[i] : i \in DOMAIN f}

Last(l) == l[Len(l)]

\* call i of the log is an add_paper (add_author) that returned an identifier
OkPaper(i) == log[i].op = "add_paper" /\ log[i].err = 0

OkAuthor(i) == log[i].op = "add_author" /\ log[i].err = 0

\* the step appends one call to the log
Calls(op) == Len(log') = Len(log) + 1 /\ Last(log').op = op

\* the venue of the paper that call i created
VenueOfCall(i) == papers[log[i].ret].venue_id

\* call i is the earliest call of the log whose paper is at venue v
CreatedVenue(i, v) ==
    /\ OkPaper(i)
    /\ VenueOfCall(i) = v
    /\ \A h \in 1..(i - 1) : OkPaper(h) => VenueOfCall(h) # v

\* the cleaned, non-empty names of an authors string, in order
CleanNames(authors_str) ==
    SelectSeq(StrippedPieces([i \in DOMAIN SplitOn(authors_str, ",") |->
                                 StripMarkers(SplitOn(authors_str, ",")[i])]),
              LAMBDA n : n # <<>>)

\* the entry of a side list for the author at position m, None when there is none
SuppliedAt(list, m) == IF TruthyList(list) /\ m <= Len(list) THEN list[m] ELSE None

\* the ids of the stored papers that satisfy Refers, in creation order
PapersWhere(Refers(_)) == SelectSeq([i \in DOMAIN papers |-> i], Refers)

RECURSIVE CitationSum(_)
CitationSum(paper_ids) ==
    IF paper_ids = <<>> THEN 0
    ELSE papers[Head(paper_ids)].total_citations + CitationSum(Tail(paper_ids))

----------------------------------------------------------------------------
(* C1: an add_paper call whose input fails one of the six checks (empty    *)
(* title, empty authors string, a date that validate_date rejects, a type  *)
(* other than journal and conference, empty venue name, a supplied email   *)
(* that validate_email rejects) ends in a validation error and leaves      *)
(* papers, authors and venues exactly as they were.                        *)

IsEmpty(x) == x = None \/ Strip(x) = <<>>

FailsACheck(a) ==
    \/ IsEmpty(a.title)
    \/ IsEmpty(a.authors)
    \/ a.publication_date = None
    \/ ~ValidateDate(a.publication_date)
    \/ (a.paper_type # JOURNAL /\ a.paper_type # CONFERENCE)
    \/ IsEmpty(a.venue_name)
    \/ (a.author_emails # NoList
        /\ \E i \in DOMAIN a.author_emails :
              a.author_emails[i] # None /\ ~ValidateEmail(a.author_emails[i]))

C1_FailedAddPaperChangesNothing ==
    [][(Calls("add_paper") /\ FailsACheck(Last(log').args))
          => (Last(log').err # 0 /\ Last(log').ret = 0 /\ store' = store)]_vars

\* a paper is rejected for its email alone after papers, authors and venues exist
C1_Witness ==
    /\ Len(log) >= 2
    /\ Last(log).op = "add_paper"
    /\ Last(log).err = 6
    /\ papers # <<>> /\ authors # <<>> /\ venues # <<>>

----------------------------------------------------------------------------
(* C2: when two successful add_paper calls list the same author name with  *)
(* the same affiliation and the same email at that author's position, both *)
(* papers reference one and the same author id, the authors mapping holds  *)
(* a single record for that author, and its papers list has both papers.   *)

SameAuthorListed(i, m, j, n) ==
    /\ CleanNames(log[i].args.authors)[m] = CleanNames(log[j].args.authors)[n]
    /\ Truthy(SuppliedAt(log[i].args.author_affiliations, m))
    /\ SuppliedAt(log[i].args.author_affiliations, m)
          = SuppliedAt(log[j].args.author_affiliations, n)
    /\ Truthy(SuppliedAt(log[i].args.author_emails, m))
    /\ SuppliedAt(log[i].args.author_emails, m) = SuppliedAt(log[j].args.author_emails, n)

RecordsLike(author) ==
    {k \in DOMAIN authors : /\ authors[k].first_name = author.first_name
                            /\ authors[k].last_name = author.last_name
                            /\ authors[k].affiliation = author.affiliation
                            /\ authors[k].email = author.email}

C2_SameAuthorAcrossPapers ==
    \A i \in DOMAIN log : \A j \in DOMAIN log :
        (i < j /\ OkPaper(i) /\ OkPaper(j)) =>
            \A m \in DOMAIN CleanNames(log[i].args.authors) :
            \A n \in DOMAIN CleanNames(log[j].args.authors) :
                SameAuthorListed(i, m, j, n) =>
                    /\ papers[log[i].ret].authors[m] = papers[log[j].ret].authors[n]
                    /\ Cardinality(RecordsLike(authors[papers[log[i].ret].authors[m]])) = 1
                    /\ {log[i].ret, log[j].ret}
                          \subseteq Range(authors[papers[log[i].ret].authors[m]].papers)

----------------------------------------------------------------------------
(* C3: add_author called twice in a row with the same first and last name  *)
(* and no affiliation or email returns the same identifier both times and  *)
(* leaves exactly one author record of that name.                          *)

NameOnly(a) == ~Truthy(a.affiliation) /\ ~Truthy(a.email)

RecordsNamed(a) ==
    {k \in DOMAIN authors : /\ authors[k].first_name = Or(a.first_name, NA)
                            /\ authors[k].last_name = Or(a.last_name, NA)}

C3_RepeatedAddAuthorIsIdempotent ==
    \A i \in DOMAIN log :
        (/\ i < Len(log)
         /\ OkAuthor(i) /\ OkAuthor(i + 1)
         /\ log[i].args = log[i + 1].args
         /\ NameOnly(log[i].args)) =>
            /\ log[i + 1].ret = log[i].ret
            /\ Cardinality(RecordsNamed(log[i].args)) = 1

----------------------------------------------------------------------------
(* C4: from the empty store, add_author(K, L, affiliation U) followed by   *)
(* add_author(K, L, email a@b.cc) returns the same identifier twice and    *)
(* leaves one author record, with affiliation U and email a@b.cc.          *)

C4_AffiliationThenEmailMerge ==
    (/\ Len(log) = 2
     /\ OkAuthor(1) /\ OkAuthor(2)
     /\ log[1].args = [first_name |-> sK, last_name |-> sL, affiliation |-> sAffU, email |-> None]
     /\ log[2].args = [first_name |-> sK, last_name |-> sL, affiliation |-> None, email |-> sMail1])
        => /\ log[1].ret = log[2].ret
           /\ Len(authors) = 1
           /\ authors[1].affiliation = sAffU
           /\ authors[1].email = sMail1

----------------------------------------------------------------------------
(* C5: every stored paper lists only authors that are in the authors       *)
(* mapping, its corresponding authors are among its authors, and its       *)
(* venue_id is in the venues mapping.                                      *)

C5_PaperReferencesResolve ==
    \A p \in DOMAIN papers :
        /\ Range(papers[p].authors) \subseteq DOMAIN authors
        /\ Range(papers[p].corresponding_authors) \subseteq Range(papers[p].authors)
        /\ papers[p].venue_id \in DOMAIN venues

\* two papers are stored, one of them with two authors of which one is corresponding
C5_Witness ==
    /\ Len(papers) >= 2
    /\ \E p \in DOMAIN papers :
          /\ Len(papers[p].authors) = 2
          /\ Len(papers[p].corresponding_authors) = 1

----------------------------------------------------------------------------
(* C6: the papers list of every author and of every venue holds exactly    *)
(* the ids of the stored papers that reference it, each once and in        *)
(* creation order, and its total_citations is the sum of the               *)
(* total_citations of those papers.                                        *)

PapersOfAuthor(k) == PapersWhere(LAMBDA p : k \in Range(papers[p].authors))

PapersAtVenue(v) == PapersWhere(LAMBDA p : papers[p].venue_id = v)

C6_BackReferencesAndTotals ==
    /\ \A k \in DOMAIN authors :
          /\ authors[k].papers = PapersOfAuthor(k)
          /\ authors[k].total_citations = CitationSum(PapersOfAuthor(k))
    /\ \A v \in DOMAIN venues :
          /\ venues[v].papers = PapersAtVenue(v)
          /\ venues[v].total_citations = CitationSum(PapersAtVenue(v))

\* a venue with two cited papers, an author of a cited paper, an author of no paper
C6_Witness ==
    /\ \E v \in DOMAIN venues : Len(venues[v].papers) = 2 /\ venues[v].total_citations = 16
    /\ \E k \in DOMAIN authors : authors[k].papers # <<>> /\ authors[k].total_citations = 8
    /\ \E k \in DOMAIN authors : authors[k].papers = <<>>

----------------------------------------------------------------------------
(* C7: once the affiliation (the email) of an author holds a value other   *)
(* than "n/a", every later call leaves that value in place.                *)

C7_KnownAuthorFieldsAreKept ==
    [][\A k \in DOMAIN authors :
          /\ authors[k].affiliation # NA => authors'[k].affiliation = authors[k].affiliation
          /\ authors[k].email # NA => authors'[k].email = authors[k].email]_vars

\* a later add_author matched an author and supplied another email than the stored one
C7_Witness ==
    \E i \in DOMAIN log : \E j \in DOMAIN log :
        /\ i < j
        /\ OkAuthor(i) /\ OkAuthor(j)
        /\ log[i].ret = log[j].ret
        /\ Truthy(log[i].args.email) /\ Truthy(log[j].args.email)
        /\ log[j].args.email # log[i].args.email
        /\ authors[log[i].ret].email = log[i].args.email

----------------------------------------------------------------------------
(* C8: when add_paper resolves its venue to an existing record, each of    *)
(* cas_division, jcr_division, ccf_class that the record holds at "n/a"    *)
(* and the call supplies is set to the supplied value; a classification    *)
(* field that holds another value than "n/a" is never changed; and a       *)
(* conference record never has cas_division or jcr_division.               *)

ClassificationKeys == {"cas_division", "jcr_division", "ccf_class"}

C8_ClassificationBackFill ==
    [][(Calls("add_paper") /\ Last(log').err = 0) =>
          /\ LET a == Last(log').args
                 v == papers'[Last(log').ret].venue_id
             IN  v \in DOMAIN venues =>
                    \A key \in ClassificationKeys :
                        (Get(venues[v], key) = NA /\ Truthy(a[key]))
                            => Get(venues'[v], key) = a[key]
          /\ \A k \in DOMAIN venues : \A key \in ClassificationKeys :
                (key \in DOMAIN venues[k] /\ venues[k][key] # NA)
                    => Get(venues'[k], key) = venues[k][key]
          /\ \A k \in DOMAIN venues' :
                venues'[k].type = CONFERENCE
                    => DOMAIN venues'[k] \cap {"cas_division", "jcr_division"} = {}]_vars

\* a journal created without labels got cas_division from a later paper, and a third
\* paper supplied another cas_division that was not taken
C8_Witness ==
    /\ Len(log) = 3
    /\ OkPaper(1) /\ OkPaper(2) /\ OkPaper(3)
    /\ VenueOfCall(1) = VenueOfCall(2) /\ VenueOfCall(2) = VenueOfCall(3)
    /\ venues[VenueOfCall(1)].type = JOURNAL
    /\ ~Truthy(log[1].args.cas_division)
    /\ Truthy(log[2].args.cas_division)
    /\ Truthy(log[3].args.cas_division)
    /\ log[3].args.cas_division # log[2].args.cas_division
    /\ venues[VenueOfCall(1)].cas_division = log[2].args.cas_division

----------------------------------------------------------------------------
(* C9: two successful conference add_paper calls whose venue names are     *)
(* equal, case-insensitively, once the 4-digit tokens and the ordinal      *)
(* tokens are removed and whitespace is collapsed, get the same venue_id,  *)
(* and the name of that venue is the raw name of the first call; two       *)
(* journal calls get the same venue exactly when their unmodified names    *)
(* are equal case-insensitively.                                           *)

IsYearToken(t) == Len(t) = 4 /\ \A i \in DOMAIN t : IsDigit(t[i])

IsOrdinalToken(t) ==
    /\ Len(t) >= 3
    /\ \A i \in 1..(Len(t) - 2) : IsDigit(t[i])
    /\ <<t[Len(t) - 1], t[Len(t)]>> \in {<<"s", "t">>, <<"n", "d">>, <<"r", "d">>, <<"t", "h">>}

\* the name without its year and ordinal tokens, single-spaced, in lower case
CanonicalName(name) ==
    Lower(JoinSp(SelectSeq(SplitWs(name), LAMBDA t : ~IsYearToken(t) /\ ~IsOrdinalToken(t))))

ConferenceCall(i) == OkPaper(i) /\ log[i].args.paper_type = CONFERENCE

JournalCall(i) == OkPaper(i) /\ log[i].args.paper_type = JOURNAL

SameConference(i, j) ==
    /\ i < j
    /\ ConferenceCall(i) /\ ConferenceCall(j)
    /\ CanonicalName(log[i].args.venue_name) = CanonicalName(log[j].args.venue_name)

\* call i is the first conference call of the log with the canonical name of its venue
FirstOfConference(i) ==
    /\ ConferenceCall(i)
    /\ \A h \in 1..(i - 1) :
          ConferenceCall(h) =>
              CanonicalName(log[h].args.venue_name) # CanonicalName(log[i].args.venue_name)

JournalsCompareUnmodified ==
    \A i \in DOMAIN log : \A j \in DOMAIN log :
        (i < j /\ JournalCall(i) /\ JournalCall(j)) =>
            ((VenueOfCall(i) = VenueOfCall(j))
                <=> (Lower(log[i].args.venue_name) = Lower(log[j].args.venue_name)))

\* C9 as stated: conference calls of one canonical name share one venue, and the shared
\* venue is named as the first conference call named it; journals compare unmodified
C9_ConferenceNamedByFirstCall ==
    /\ \A i \in DOMAIN log : \A j \in DOMAIN log :
          SameConference(i, j) =>
              /\ VenueOfCall(i) = VenueOfCall(j)
              /\ FirstOfConference(i) => venues[VenueOfCall(i)].name = log[i].args.venue_name
    /\ JournalsCompareUnmodified

\* C9 as amended: conference calls of one canonical name share one venue, and the shared
\* venue is named as the call that created the record
\* named it, which is a journal call when a journal of that name was stored before
C9_ConferenceNamedByCreator ==
    /\ \A i \in DOMAIN log : \A j \in DOMAIN log :
          SameConference(i, j) =>
              /\ VenueOfCall(i) = VenueOfCall(j)
              /\ \A c \in DOMAIN log :
                    CreatedVenue(c, VenueOfCall(i)) =>
                        /\ venues[VenueOfCall(i)].name = log[c].args.venue_name
                        /\ (c # i /\ FirstOfConference(i)) =>
                              /\ JournalCall(c)
                              /\ Lower(log[c].args.venue_name)
                                    = CanonicalName(log[i].args.venue_name)
    /\ JournalsCompareUnmodified

\* a conference named with a year and one named with an ordinal and in another case
\* share a venue that carries the first name
C9_Witness ==
    /\ Len(log) >= 2
    /\ SameConference(1, 2)
    /\ log[1].args.venue_name = sYearX
    /\ log[2].args.venue_name = sOrdinalX
    /\ VenueOfCall(1) = VenueOfCall(2)
    /\ venues[VenueOfCall(1)].name = sYearX

----------------------------------------------------------------------------
(* C10: venue resolution does not filter by type.  From the empty store, a *)
(* journal and a conference with the same canonical name (the raw name of  *)
(* the journal, the stripped name of the conference) share the record of   *)
(* the first call, which keeps the type and the fields it was created      *)
(* with, whichever of the two came first.                                  *)

JournalKeys ==
    {"id", "name", "type", "publisher", "papers", "total_citations",
     "cas_division", "jcr_division", "ccf_class"}

ConferenceKeys ==
    {"id", "name", "type", "publisher", "papers", "total_citations",
     "normalized_name", "ccf_class"}

KeysOfType(type) == IF type = JOURNAL THEN JournalKeys ELSE ConferenceKeys

\* calls 1 and j are a journal and a conference, in either order
MixedPair(j) ==
    /\ j \in DOMAIN log /\ j > 1
    /\ OkPaper(1) /\ OkPaper(j)
    /\ log[1].args.paper_type # log[j].args.paper_type

\* the name a call is known by: raw for a journal, stripped for a conference
CanonicalOfCall(i) ==
    IF log[i].args.paper_type = CONFERENCE THEN CanonicalName(log[i].args.venue_name)
    ELSE Lower(log[i].args.venue_name)

----------------------------------------------------------------------------
(* C11: the authors string is split on commas; the pieces that are empty   *)
(* once the marker glyphs are removed are discarded; every other piece     *)
(* gives one author of the paper, named without the glyphs; and the        *)
(* paper's corresponding_authors are the authors of the flagged pieces.    *)

\* the pieces of an authors string that still hold a name without their marker glyphs
NamedPieces(authors_str) ==
    SelectSeq(SplitOn(authors_str, ","), LAMBDA p : Strip(StripMarkers(p)) # <<>>)

HasMarker(piece) == \E i \in DOMAIN piece : piece[i] \in MarkerChars

HasStar(piece) == \E i \in DOMAIN piece : piece[i] = "*"

\* the positions of the flagged pieces, in order
FlaggedPositions(pieces, Flagged(_)) ==
    SelectSeq([k \in DOMAIN pieces |-> k], LAMBDA k : Flagged(pieces[k]))

\* the authors of paper p are those of the named pieces, in order and without glyphs
AuthorsOfPieces(p, pieces) ==
    /\ Len(p.authors) = Len(pieces)
    /\ \A k \in DOMAIN pieces :
          /\ authors[p.authors[k]].first_name = ParseName(Strip(StripMarkers(pieces[k])))[1]
          /\ authors[p.authors[k]].last_name = ParseName(Strip(StripMarkers(pieces[k])))[2]
          /\ ~HasMarker(authors[p.authors[k]].first_name)
          /\ ~HasMarker(authors[p.authors[k]].last_name)

\* the corresponding authors of paper p are the authors at the given positions
CorrespondingAt(p, positions) ==
    p.corresponding_authors = [m \in DOMAIN positions |-> p.authors[positions[m]]]

ParsedWith(i, Flagged(_)) ==
    /\ AuthorsOfPieces(papers[log[i].ret], NamedPieces(log[i].args.authors))
    /\ CorrespondingAt(papers[log[i].ret],
                       FlaggedPositions(NamedPieces(log[i].args.authors), Flagged))

\* C11 as stated: a piece is flagged corresponding exactly when it holds at least one of
\* the five marker glyphs; the glyphs are stripped, empty pieces are discarded, and the
\* corresponding authors are the authors of the flagged pieces
C11_AnyMarkerFlagsCorresponding ==
    \A i \in DOMAIN log : OkPaper(i) => ParsedWith(i, HasMarker)

\* C11 as amended: a piece is flagged corresponding exactly when it holds a star; all
\* five glyphs are stripped, empty pieces are discarded, and the corresponding authors
\* are the authors of the flagged pieces
C11_StarFlagsCorresponding ==
    \A i \in DOMAIN log : OkPaper(i) => ParsedWith(i, HasStar)

\* a paper whose five pieces gave three authors, only the starred one corresponding,
\* the pieces with a section sign and a pilcrow giving plain authors
C11_Witness ==
    \E i \in DOMAIN log :
        /\ OkPaper(i)
        /\ log[i].args.authors = sMarkedNames
        /\ Len(papers[log[i].ret].authors) = 3
        /\ papers[log[i].ret].corresponding_authors = <<papers[log[i].ret].authors[1]>>
        /\ authors[papers[log[i].ret].authors[2]].last_name = <<"M">>

----------------------------------------------------------------------------
(* C12: a load_from_json or load_from_pickle call that ends in an error    *)
(* leaves papers, authors and venues exactly as they were before the call. *)

\* the step is a load that raised
FailedLoad ==
    /\ Len(log') = Len(log) + 1
    /\ Last(log').op \in {"load_from_json", "load_from_pickle"}
    /\ Last(log').err # 0

\* C12: a failed import from a missing, unreadable or corrupt file surfaces an error and
\* changes none of the three mappings
C12_FailedImportChangesNothing == [][FailedLoad => UNCHANGED store]_vars

----------------------------------------------------------------------------
(* C13: author resolution returns an existing identifier exactly when some *)
(* existing author scores at least 0.7; the identifier is that of the      *)
(* earliest-inserted author among those of maximal score; otherwise one    *)
(* new author is created with the supplied fields, "n/a" for the missing   *)
(* ones, an empty papers list and total_citations 0.                       *)

\* a supplied value, the empty string when none is supplied
Supplied(x) == IF Truthy(x) THEN x ELSE <<>>

\* the score of the claim, in hundredths, of a stored author against the arguments a
StatedNameScore(author, a) ==
    IF /\ Lower(author.first_name) = Lower(Supplied(a.first_name))
       /\ Lower(author.last_name) = Lower(Supplied(a.last_name))
    THEN 50 ELSE 0

StatedAffiliationScore(author, a) ==
    IF ~Truthy(a.affiliation) \/ author.affiliation = NA THEN 0
    ELSE IF Lower(a.affiliation) = Lower(author.affiliation) THEN 30
    ELSE IF \/ IsSubstring(Lower(a.affiliation), Lower(author.affiliation))
            \/ IsSubstring(Lower(author.affiliation), Lower(a.affiliation))
         THEN 15 ELSE 0

StatedEmailScore(author, a) ==
    IF Truthy(a.email) /\ author.email # NA /\ Lower(a.email) = Lower(author.email)
    THEN 20 ELSE 0

StatedScore(author, a) ==
    StatedNameScore(author, a) + StatedAffiliationScore(author, a)
        + StatedEmailScore(author, a)

\* the stored authors that score at least 0.7 against a
Matching(a) == {k \in DOMAIN authors : StatedScore(authors[k], a) >= 70}

\* k is the earliest-inserted author among those of maximal score
EarliestBest(k, a) ==
    /\ k \in Matching(a)
    /\ \A h \in Matching(a) :
          \/ StatedScore(authors[h], a) < StatedScore(authors[k], a)
          \/ StatedScore(authors[h], a) = StatedScore(authors[k], a) /\ k <= h

\* the record of a new author a under identifier id, whatever its full_name
CreatedFrom(record, id, a) ==
    /\ record.id = id
    /\ record.first_name = (IF Truthy(a.first_name) THEN a.first_name ELSE NA)
    /\ record.last_name = (IF Truthy(a.last_name) THEN a.last_name ELSE NA)
    /\ record.affiliation = (IF Truthy(a.affiliation) THEN a.affiliation ELSE NA)
    /\ record.email = (IF Truthy(a.email) THEN a.email ELSE NA)
    /\ record.papers = <<>>
    /\ record.total_citations = 0

\* the step is an add_author that returned an identifier
ResolverStep == Calls("add_author") /\ Last(log').err = 0

ResolvedAsStated(a, ret) ==
    IF Matching(a) # {}
    THEN /\ EarliestBest(ret, a)
         /\ Len(authors') = Len(authors)
    ELSE /\ ret \notin DOMAIN authors
         /\ Len(authors') = Len(authors) + 1
         /\ \A k \in DOMAIN authors : authors'[k] = authors[k]
         /\ CreatedFrom(authors'[ret], ret, a)

\* C13: the resolver returns the earliest author of maximal score when that score is at
\* least 0.7, and creates exactly one new author otherwise
C13_ResolverMatchesAtThreshold ==
    [][ResolverStep => ResolvedAsStated(Last(log').args, Last(log').ret)]_vars

\* two stored authors "K L" of affiliation "U" tie at 0.8 for add_author("K", "L", "U"),
\* and the call returned the first of them
C13_Witness ==
    /\ Len(log) = 3 /\ OkAuthor(3)
    /\ Len(authors) = 2
    /\ log[3].args.first_name = sK /\ log[3].args.affiliation = sAffU
    /\ log[3].args.email = None
    /\ authors[1].first_name = sK /\ authors[2].first_name = sK
    /\ authors[1].affiliation = sAffU /\ authors[2].affiliation = sAffU
    /\ authors[1].email = authors[2].email
    /\ log[3].ret = 1

----------------------------------------------------------------------------
(* C14: across add_paper, add_author and get_* calls the store only grows: *)
(* no key leaves papers, authors or venues; the papers list of an author   *)
(* or venue keeps its earlier list as a prefix and total_citations never   *)
(* decreases; a stored paper record keeps every field.                     *)

IsPrefix(s, t) == Len(s) <= Len(t) /\ \A m \in DOMAIN s : s[m] = t[m]

\* the record keeps its papers list as a prefix and its citation total does not decrease
Accumulates(before, after) ==
    /\ IsPrefix(before.papers, after.papers)
    /\ before.total_citations <= after.total_citations

StoreGrows ==
    /\ DOMAIN papers \subseteq DOMAIN papers'
    /\ DOMAIN authors \subseteq DOMAIN authors'
    /\ DOMAIN venues \subseteq DOMAIN venues'
    /\ \A k \in DOMAIN authors : Accumulates(authors[k], authors'[k])
    /\ \A v \in DOMAIN venues : Accumulates(venues[v], venues'[v])
    /\ \A p \in DOMAIN papers : papers'[p] = papers[p]

\* C14: every step keeps the keys of the three mappings, extends the papers lists,
\* does not decrease a citation total and leaves every stored paper as it was created
C14_StoreOnlyGrows == [][StoreGrows]_vars

\* two papers with citations are at one venue, whose list and total have grown twice,
\* and the first paper was then looked up with its details
C14_Witness ==
    /\ Len(log) = 3
    /\ OkPaper(1) /\ OkPaper(2)
    /\ log[3].op = "get_paper_with_details" /\ log[3].args = 1
    /\ log[3].ret.venue_details.name = venues[1].name
    /\ Len(log[3].ret.authors_details) = Len(papers[1].authors)
    /\ venues[1].papers = <<1, 2>>
    /\ venues[1].total_citations = 16
    /\ papers[1].total_citations = 8

----------------------------------------------------------------------------
(* C15: add_paper never reuses an author record.  A successful add_paper   *)
(* creates one new author for each name piece that is not empty once       *)
(* cleaned; the identifiers in the paper's authors list are fresh and      *)
(* pairwise distinct; an author created by add_paper is on exactly one     *)
(* paper in every later state.                                             *)

\* the step is an add_paper that returned an identifier
PaperStep == Calls("add_paper") /\ Last(log').err = 0

\* the n authors of the new paper are the n records the step appended to authors
CreatesItsAuthors(paper, n) ==
    /\ Len(authors') = Len(authors) + n
    /\ paper.authors = [m \in 1..n |-> Len(authors) + m]
    /\ \A k \in DOMAIN authors : authors'[k].papers = authors[k].papers

\* every author on a stored paper is on that paper only
OnOnePaperEach ==
    \A p \in DOMAIN papers : \A m \in DOMAIN papers[p].authors :
        authors[papers[p].authors[m]].papers = <<p>>

\* C15: a successful add_paper appends one author per named piece and lists exactly
\* these new authors, and the authors of a paper have that paper alone in their list
C15_AddPaperCreatesItsAuthors ==
    [][/\ PaperStep => CreatesItsAuthors(Last(papers'),
                                         Len(NamedPieces(Last(log').args.authors)))
       /\ OnOnePaperEach']_vars

\* add_author stored "K L", then a paper by "K L*,K L" created two more authors of that
\* name, and a second paper by "K L" a fourth
C15_Witness ==
    /\ Len(log) = 3
    /\ OkAuthor(1) /\ OkPaper(2) /\ OkPaper(3)
    /\ log[1].args.first_name = sK
    /\ log[2].args.authors = sKLStarKL /\ log[3].args.authors = sKL
    /\ papers[1].authors = <<2, 3>> /\ papers[2].authors = <<4>>
    /\ \A k \in 1..4 : authors[k].first_name = sK /\ authors[k].last_name = sL
    /\ authors[1].papers = <<>>

----------------------------------------------------------------------------
(* C16: add_author with an empty or absent first name (or last name) never *)
(* matches a stored author, whatever affiliation and email it supplies:    *)
(* the missing part is stored as "n/a" and compared as the empty string,   *)
(* so the name adds nothing to the score, the score is at most 0.5, and    *)
(* every repetition of the call creates one more record.                   *)

MissesAName(a) == ~Truthy(a.first_name) \/ ~Truthy(a.last_name)

\* no stored author gets the name weight, or more than 0.5 in all, against a
ScoresWithoutName(a) ==
    \A k \in DOMAIN authors :
        /\ NameScore(authors[k], a.first_name, a.last_name) = 0
        /\ AuthorSimilarityScore(authors[k], a.first_name, a.last_name,
                                 a.affiliation, a.email) <= 50

\* the step appended the record ret, its missing name part stored as "n/a"
CreatedNameless(a, ret) ==
    /\ ret = Len(authors) + 1
    /\ authors' = Append(authors, authors'[ret])
    /\ authors'[ret].first_name = (IF Truthy(a.first_name) THEN a.first_name ELSE NA)
    /\ authors'[ret].last_name = (IF Truthy(a.last_name) THEN a.last_name ELSE NA)

\* C16: a successful add_author that misses a name part scores at most 0.5 against every
\* stored author and creates a new record, also when the same call was made before
C16_MissingNameNeverMatches ==
    [][(ResolverStep /\ MissesAName(Last(log').args)) =>
          /\ ScoresWithoutName(Last(log').args)
          /\ CreatedNameless(Last(log').args, Last(log').ret)]_vars

\* the same call, without first name and with affiliation and email, made three times,
\* left three records
C16_Witness ==
    /\ Len(log) = 3
    /\ \A i \in 1..3 : OkAuthor(i) /\ log[i].args = log[1].args /\ log[i].ret = i
    /\ log[1].args.first_name = None
    /\ log[1].args.affiliation = sAffU /\ log[1].args.email = sMail1
    /\ Len(authors) = 3
    /\ \A k \in 1..3 : authors[k].first_name = NA /\ authors[k].affiliation = sAffU

====
